---- MODULE Spec2Model ----
(***************************************************************************)
(* The Cherry lexer (compiler/ccherry-lexer/src/lib.rs) as a state machine. *)
(*                                                                         *)
(* State: the Lexer struct (chars, idx, comments) plus the history of what *)
(* the pulls (Iterator::next) returned.  One action, Pull, is one call of  *)
(* Lexer::next; the scanners it calls are operators that thread the cursor *)
(* and the pending-comment buffer exactly as the Rust code does.           *)
(*                                                                         *)
(* Indices are 0-based as in the source: At(i) is self.chars[i].           *)
(* A character is a one-character string; the Unicode-only members of the  *)
(* classifier sets carry their code point as a name ("U+2028").            *)
(*                                                                         *)
(* i64 is modelled at width IntBits (two's complement range               *)
(* -2^(IntBits-1) .. 2^(IntBits-1)-1): the checked-overflow logic of the   *)
(* integer parse is kept, only the width is scaled so that overflowing     *)
(* literals fit the bounded source length.                                 *)
(***************************************************************************)
EXTENDS Integers, Sequences, FiniteSets, TLC

VARIABLES chars, idx, comments, out, status

vars == <<chars, idx, comments, out, status>>

(***************************************************************************)
(* Bounds of the model.                                                    *)
(***************************************************************************)
MaxLen == 4
MaxLenTrivia == 6
MaxLenGroup == 5
MaxPulls == 3
IntBits == 4
MaxLenExp == 5

RECURSIVE Pow2(_)
Pow2(n) == IF n = 0 THEN 1 ELSE 2 * Pow2(n - 1)

IntMax == Pow2(IntBits - 1) - 1
IntMin == 0 - Pow2(IntBits - 1)

(***************************************************************************)
(* Character classifier.                                                   *)
(***************************************************************************)
LineBreakChars ==
    {"\n", "U+000B", "\f", "\r", "U+0085", "U+2028", "U+2029"}

WhitespaceChars ==
    {"\t", " ", "U+00A0", "U+1680", "U+2000", "U+2001", "U+2002", "U+2003",
     "U+2004", "U+2005", "U+2006", "U+2007", "U+2008", "U+2009", "U+200A",
     "U+202F", "U+205F", "U+3000"}

PunctChars ==
    {"!", "@", "#", "$", "%", "&", "*", ";", ":", ",", ".", "<", ">", "/",
     "|", "-", "=", "+", "?", "~"}

DigitChars == {"0", "1", "2", "3", "4", "5", "6", "7", "8", "9"}

HexDigitChars ==
    DigitChars \cup {"a", "b", "c", "d", "e", "f", "A", "B", "C", "D", "E", "F"}

BinDigitChars == {"0", "1"}

\* XID_Start restricted to the ASCII letters (the members the model's sources use).
XidStartChars ==
    {"a", "b", "c", "d", "e", "f", "g", "h", "i", "j", "k", "l", "m", "n", "o",
     "p", "q", "r", "s", "t", "u", "v", "w", "x", "y", "z",
     "A", "B", "C", "D", "E", "F", "G", "H", "I", "J", "K", "L", "M", "N", "O",
     "P", "Q", "R", "S", "T", "U", "V", "W", "X", "Y", "Z"}

\* XID_Continue restricted to ASCII: letters, digits and the underscore.
XidContinueChars == XidStartChars \cup DigitChars \cup {"_"}

\* Unicode White_Space, the set str::trim strips.
TrimChars == WhitespaceChars \cup LineBreakChars

is_line_break(c) == c \in LineBreakChars
is_whitespace(c) == c \in WhitespaceChars
is_iden(c) == c \in XidStartChars \/ c = "_"
is_punct(c) == c \in PunctChars
is_digit(c) == c \in DigitChars
is_hex_digit(c) == c \in HexDigitChars
is_bin_digit(c) == c \in BinDigitChars
is_xid_continue(c) == c \in XidContinueChars

DigitVal(c) ==
    CASE c = "0" -> 0 [] c = "1" -> 1 [] c = "2" -> 2 [] c = "3" -> 3
      [] c = "4" -> 4 [] c = "5" -> 5 [] c = "6" -> 6 [] c = "7" -> 7
      [] c = "8" -> 8 [] c = "9" -> 9
      [] c \in {"a", "A"} -> 10 [] c \in {"b", "B"} -> 11
      [] c \in {"c", "C"} -> 12 [] c \in {"d", "D"} -> 13
      [] c \in {"e", "E"} -> 14 [] c \in {"f", "F"} -> 15

(***************************************************************************)
(* The source text.                                                        *)
(***************************************************************************)
N == Len(chars)
At(i) == chars[i + 1]
\* chars[a..b) as a sequence
Slice(a, b) == SubSeq(chars, a + 1, b)

RECURSIVE TrimStart(_)
TrimStart(s) ==
    IF s # <<>> /\ Head(s) \in TrimChars THEN TrimStart(Tail(s)) ELSE s

RECURSIVE TrimEnd(_)
TrimEnd(s) ==
    IF s # <<>> /\ s[Len(s)] \in TrimChars
    THEN TrimEnd(SubSeq(s, 1, Len(s) - 1)) ELSE s

\* str::trim
Trim(s) == TrimEnd(TrimStart(s))

\* F applied to the value v: binds the result of a call to a name.
With(v, F(_)) == F(v)

NoDiag == [code |-> "", labels |-> <<>>]
Primary(a, b) == [style |-> "primary", loc |-> <<a, b>>]
Secondary(a, b) == [style |-> "secondary", loc |-> <<a, b>>]
Diagnostic(code, labels) == [code |-> code, labels |-> labels]

(***************************************************************************)
(* Trivia scanner.  Every scanner result carries the cursor (idx) and the  *)
(* pending-comment buffer (comments) it leaves in the Lexer.  kind "panic" *)
(* is an index-out-of-bounds panic of the Rust code.                       *)
(***************************************************************************)
Comment(a, b, value, kind) == [loc |-> <<a, b>>, value |-> value, kind |-> kind]

\* The first index j >= i with j = N or chars[j] = "\n": where the loop of
\* lines 114-117 would stop if it did not read past the end.
RECURSIVE LineEnd(_)
LineEnd(i) == IF i < N /\ At(i) # "\n" THEN LineEnd(i + 1) ELSE i

\* The comment kind chosen by lines 122-125.
LineCommentKind(doc) == IF doc THEN "Line" ELSE "Doc"

\* skip_line_comment, entered with idx = i just after the "//".  The loop
\* increments idx and then reads chars[idx]: the pushed characters are
\* chars[i1+1 .. j], and the read faults when idx reaches the length.
skip_line_comment(i) ==
    With(i < N /\ At(i) = "/", LAMBDA doc :
    With(IF doc THEN i + 1 ELSE i, LAMBDA i1 :
    With(LineEnd(i1), LAMBDA j :
        IF i1 < N /\ j = N
        THEN [kind |-> "panic", idx |-> N, comment |-> Comment(0, 0, <<>>, ""),
              diag |-> NoDiag]
        ELSE [kind |-> "Comment", idx |-> j,
              comment |-> Comment(i - 2, j, Trim(Slice(i1 + 1, j + 1)),
                                  LineCommentKind(doc)),
              diag |-> NoDiag])))

\* Mutant: the primary label is put at the last character of the source.
BlockCommentNeverEndsAtLast(at, start_index) ==
    Diagnostic("E0001", <<Primary(at - 1, at), Secondary(start_index, start_index + 2)>>)

\* Both E0001 diagnostics of skip_block_comment (lines 136-144, 152-160).
BlockCommentNeverEnds(at, start_index) ==
    Diagnostic("E0001", <<Primary(at, at), Secondary(start_index, start_index + 2)>>)

\* The loop of skip_block_comment (lines 134-177) from cursor k.
RECURSIVE BlockCommentLoop(_, _, _)
BlockCommentLoop(k, value, start_index) ==
    IF k >= N
    THEN [kind |-> "err", idx |-> k, comment |-> Comment(0, 0, <<>>, ""),
          diag |-> BlockCommentNeverEnds(k, start_index)]
    ELSE IF At(k) = "*"
    THEN IF k + 1 >= N
         THEN [kind |-> "err", idx |-> k + 1, comment |-> Comment(0, 0, <<>>, ""),
               diag |-> BlockCommentNeverEnds(k + 1, start_index)]
         ELSE IF At(k + 1) # "/"
         THEN BlockCommentLoop(k + 2, value \o <<"*", At(k + 1)>>, start_index)
         ELSE [kind |-> "Comment", idx |-> k + 2,
               comment |-> Comment(start_index, k + 2, Trim(value), "Block"),
               diag |-> NoDiag]
    ELSE BlockCommentLoop(k + 1, Append(value, At(k)), start_index)

\* skip_block_comment, entered with idx = i just after the "/*".
skip_block_comment(i) == BlockCommentLoop(i, <<>>, i - 2)

\* What skip_token does with a "/" at i that has a character after it
\* (lines 210-222): the cursor moves past both characters before the second
\* one is looked at.
SkipSlash(i) ==
    LET second_char == At(i + 1)
    IN  IF second_char = "/" THEN skip_line_comment(i + 2)
        ELSE IF second_char = "*" THEN skip_block_comment(i + 2)
        ELSE [kind |-> "None", idx |-> i + 2, comment |-> Comment(0, 0, <<>>, ""),
              diag |-> NoDiag]

\* skip_token: kind is the Skipped variant, or "err" / "panic".
skip_token(i) ==
    LET same(kind) == [kind |-> kind, idx |-> i, comment |-> Comment(0, 0, <<>>, ""),
                       diag |-> NoDiag]
        step(kind) == [kind |-> kind, idx |-> i + 1,
                       comment |-> Comment(0, 0, <<>>, ""), diag |-> NoDiag]
    IN  IF i >= N THEN same("None")
        ELSE IF is_whitespace(At(i)) THEN step("Whitespace")
        ELSE IF is_line_break(At(i)) THEN step("LineBreak")
        ELSE IF At(i) = "/"
        THEN IF i + 1 >= N THEN same("None") ELSE SkipSlash(i)
        ELSE same("None")

\* skip: kind "ok", "err" or "panic".
RECURSIVE skip(_, _)
skip(i, cs) ==
    With(skip_token(i), LAMBDA r :
        CASE r.kind = "Comment" -> skip(r.idx, Append(cs, r.comment))
          [] r.kind = "None" ->
               [kind |-> "ok", idx |-> r.idx, comments |-> cs, diag |-> NoDiag]
          [] r.kind \in {"Whitespace", "LineBreak"} -> skip(r.idx, cs)
          [] OTHER ->
               [kind |-> r.kind, idx |-> r.idx, comments |-> cs, diag |-> r.diag])

\* Mutant: whitespace seen before the line break wins over it.
SpacingAtLineBreakAfterWhitespace(has_whitespace) ==
    IF has_whitespace THEN "Whitespace" ELSE "LineBreak"

\* The Spacing returned when skip_token reports a line break (line 259).
SpacingAtLineBreak(has_whitespace) == "LineBreak"

\* The Spacing returned when nothing more is skippable (lines 260-266).
SpacingAtNone(has_whitespace) == IF has_whitespace THEN "Whitespace" ELSE "None"

\* The loop of spacing (lines 249-270).
RECURSIVE SpacingLoop(_, _, _)
SpacingLoop(i, cs, has_whitespace) ==
    With(skip_token(i), LAMBDA r :
        CASE r.kind = "Comment" -> SpacingLoop(r.idx, Append(cs, r.comment), TRUE)
          [] r.kind = "Whitespace" -> SpacingLoop(r.idx, cs, TRUE)
          [] r.kind = "LineBreak" ->
               [kind |-> "ok", spacing |-> SpacingAtLineBreak(has_whitespace),
                idx |-> r.idx, comments |-> cs, diag |-> NoDiag]
          [] r.kind = "None" ->
               [kind |-> "ok", spacing |-> SpacingAtNone(has_whitespace),
                idx |-> r.idx, comments |-> cs, diag |-> NoDiag]
          [] OTHER ->
               [kind |-> r.kind, spacing |-> "None", idx |-> r.idx,
                comments |-> cs, diag |-> r.diag])

spacing(i, cs) == SpacingLoop(i, cs, FALSE)

\* get_comments: the comments handed out, and the buffer left behind.
get_comments(cs) == [taken |-> cs, left |-> <<>>]

(***************************************************************************)
(* Token tree.  One record shape for all variants; the fields a variant    *)
(* does not have hold a default.                                           *)
(***************************************************************************)
Token(type, a, b) ==
    [type |-> type, loc |-> <<a, b>>, text |-> <<>>, value |-> 0,
     kind |-> "", tokens |-> <<>>, comments |-> <<>>, spacing |-> "None"]

TokIden(a, b, text) == [Token("Iden", a, b) EXCEPT !.text = text]
TokPunct(a, b, c) == [Token("Punct", a, b) EXCEPT !.text = <<c>>]
TokInt(a, b, kind, value) == [Token("Int", a, b) EXCEPT !.kind = kind, !.value = value]
TokFloat(a, b, text) == [Token("Float", a, b) EXCEPT !.text = text]
TokStr(a, b, text) == [Token("Str", a, b) EXCEPT !.text = text]
TokGroup(a, b, tokens) == [Token("Group", a, b) EXCEPT !.tokens = tokens]

NoToken == Token("", 0, 0)

\* Results of a scanner: kind is "tok", "err", "none", "panic" or "hang".
Ok(tok, i, cs) ==
    [kind |-> "tok", tok |-> tok, diag |-> NoDiag, idx |-> i, comments |-> cs]
\* Mutant: a scanner that fails puts the cursor back at the start of the
\* source.
ErrRewound(diag, i, cs) ==
    [kind |-> "err", tok |-> NoToken, diag |-> diag, idx |-> 0, comments |-> cs]
Err(diag, i, cs) ==
    [kind |-> "err", tok |-> NoToken, diag |-> diag, idx |-> i, comments |-> cs]
\* Mutant: the cursor is put back at the start of the source.
StopRewound(kind, i, cs) ==
    [kind |-> kind, tok |-> NoToken, diag |-> NoDiag, idx |-> 0, comments |-> cs]
Stop(kind, i, cs) ==
    [kind |-> kind, tok |-> NoToken, diag |-> NoDiag, idx |-> i, comments |-> cs]

\* Mutant: a failure of the trailing-spacing pass does not abort; the token
\* is built with the spacing None.
FinishKeepsToken(tok, i, cs) ==
    With(get_comments(cs), LAMBDA g :
    With(spacing(i, g.left), LAMBDA sp :
        IF sp.kind \in {"ok", "err"}
        THEN Ok([tok EXCEPT !.comments = g.taken, !.spacing = sp.spacing],
                sp.idx, sp.comments)
        ELSE Stop(sp.kind, sp.idx, sp.comments)))

\* The tail shared by every scanner: the struct literal
\*   { loc, .., comments: self.get_comments(), spacing: self.spacing()? }
\* evaluated in field order, with the cursor at i (the token's end).
Finish(tok, i, cs) ==
    With(get_comments(cs), LAMBDA g :
    With(spacing(i, g.left), LAMBDA sp :
        IF sp.kind = "ok"
        THEN Ok([tok EXCEPT !.comments = g.taken, !.spacing = sp.spacing],
                sp.idx, sp.comments)
        ELSE IF sp.kind = "err" THEN Err(sp.diag, sp.idx, sp.comments)
        ELSE Stop(sp.kind, sp.idx, sp.comments)))


(***************************************************************************)
(* Numeric literal scanner.                                                *)
(***************************************************************************)
\* Mutant: the digit loop with wrapping arithmetic in place of the checked
\* multiply and add.
RECURSIVE ParseDigitsWrapping(_, _, _, _)
ParseDigitsWrapping(s, radix, negative, acc) ==
    IF s = <<>> THEN [ok |-> TRUE, value |-> acc]
    ELSE IF ~(Head(s) \in HexDigitChars /\ DigitVal(Head(s)) < radix)
    THEN [ok |-> FALSE, value |-> 0]
    ELSE LET next == IF negative THEN acc * radix - DigitVal(Head(s))
                     ELSE acc * radix + DigitVal(Head(s))
             wrapped == ((next - IntMin) % Pow2(IntBits)) + IntMin
         IN  ParseDigitsWrapping(Tail(s), radix, negative, wrapped)

\* The digit loop of the integer parse (core::num from_str_radix): checked
\* multiply and checked add (subtract for a negative literal), at the width
\* IntBits.  ok = FALSE is PosOverflow / NegOverflow / InvalidDigit.
RECURSIVE ParseDigits(_, _, _, _)
ParseDigits(s, radix, negative, acc) ==
    IF s = <<>> THEN [ok |-> TRUE, value |-> acc]
    ELSE IF ~(Head(s) \in HexDigitChars /\ DigitVal(Head(s)) < radix)
    THEN [ok |-> FALSE, value |-> 0]
    ELSE LET next == IF negative THEN acc * radix - DigitVal(Head(s))
                     ELSE acc * radix + DigitVal(Head(s))
         IN  IF next > IntMax \/ next < IntMin
             THEN [ok |-> FALSE, value |-> 0]
             ELSE ParseDigits(Tail(s), radix, negative, next)

\* i64::from_str_radix (and str::parse::<i64> at radix 10): an optional sign,
\* then at least one digit.
from_str_radix(s, radix) ==
    IF s = <<>> THEN [ok |-> FALSE, value |-> 0]
    ELSE IF Head(s) \in {"+", "-"}
    THEN IF Tail(s) = <<>> THEN [ok |-> FALSE, value |-> 0]
         ELSE ParseDigits(Tail(s), radix, Head(s) = "-", 0)
    ELSE ParseDigits(s, radix, FALSE, 0)

RECURSIVE DigitRun(_)
\* the length of the leading run of decimal digits of s
DigitRun(s) == IF s # <<>> /\ is_digit(Head(s)) THEN 1 + DigitRun(Tail(s)) ELSE 0

Drop(s, n) == SubSeq(s, n + 1, Len(s))

\* s without its leading run of decimal digits.
AfterDigits(s) == Drop(s, DigitRun(s))

\* s without an optional leading sign.
AfterSign(s) == IF s # <<>> /\ Head(s) \in {"+", "-"} THEN Tail(s) ELSE s

\* The exponent of a float numeral is well formed: nothing, or a marker, an
\* optional sign and at least one digit up to the end.
ExponentOk(s) ==
    \/ s = <<>>
    \/ /\ Head(s) \in {"e", "E"}
       /\ DigitRun(AfterSign(Tail(s))) > 0
       /\ AfterDigits(AfterSign(Tail(s))) = <<>>

\* The mantissa m (sign removed) is digits with an optional ".", at least
\* one digit in all, followed by a well-formed exponent.
MantissaOk(m) ==
    With(AfterDigits(m), LAMBDA r :
        IF r # <<>> /\ Head(r) = "."
        THEN /\ DigitRun(m) + DigitRun(Tail(r)) > 0
             /\ ExponentOk(AfterDigits(Tail(r)))
        ELSE DigitRun(m) > 0 /\ ExponentOk(r))

\* str::parse::<f64> on the numerals this scanner can build.  The value is
\* kept as the accepted text.
parse_float(s) == [ok |-> MantissaOk(AfterSign(s)), value |-> s]

\* String::replace("_", "")
StripUnderscores(s) == SelectSeq(s, LAMBDA c : c # "_")

\* The condition of lines 318 and 382 under which the radix loops leave.
RadixLoopLeaves(k) == k < N

\* The loops of tokenize_hexadecimal and tokenize_binary (lines 317-345,
\* 381-409); digits is the digit set of the radix.  The digit pushed is read
\* after the cursor moved (lines 342-343).
RECURSIVE RadixLoop(_, _, _, _, _)
RadixLoop(k, number, first, digits, start_index) ==
    LET none == Diagnostic("E0008", <<Primary(start_index, k - 1)>>)
    IN  IF RadixLoopLeaves(k)
        THEN IF first THEN [kind |-> "err", idx |-> k, number |-> number, diag |-> none]
             ELSE [kind |-> "break", idx |-> k, number |-> number, diag |-> NoDiag]
        ELSE IF k >= N
        THEN [kind |-> "panic", idx |-> k, number |-> number, diag |-> NoDiag]
        ELSE IF At(k) \notin digits
        THEN IF first THEN [kind |-> "err", idx |-> k, number |-> number, diag |-> none]
             ELSE [kind |-> "break", idx |-> k, number |-> number, diag |-> NoDiag]
        ELSE IF k + 1 >= N
        THEN [kind |-> "panic", idx |-> k + 1, number |-> number, diag |-> NoDiag]
        ELSE RadixLoop(k + 1, Append(number, At(k + 1)), FALSE, digits, start_index)

\* Mutant: the radix loops start as if a digit had been read.
RadixFirstUnset == FALSE

\* The value `first` has when the radix loops start (lines 314, 378).
RadixFirst == TRUE

\* tokenize_hexadecimal / tokenize_binary, entered with idx = i just after
\* the prefix; they differ in the digit set, the radix and the IntKind.
TokenizeRadix(i, cs, digits, radix, kind) ==
    IF i >= N
    THEN Err(Diagnostic("E0008", <<Primary(i - 2, i)>>), i, cs)
    ELSE With(RadixLoop(i, <<>>, RadixFirst, digits, i - 2), LAMBDA l :
         With(from_str_radix(l.number, radix), LAMBDA v :
             IF l.kind = "err" THEN Err(l.diag, l.idx, cs)
             ELSE IF l.kind = "panic" THEN Stop("panic", l.idx, cs)
             ELSE IF v.ok
             THEN Finish(TokInt(i - 2, l.idx, kind, v.value), l.idx, cs)
             ELSE Err(Diagnostic("E0009", <<Primary(i - 2, l.idx)>>), l.idx, cs)))

tokenize_hexadecimal(i, cs) == TokenizeRadix(i, cs, HexDigitChars, 16, "Hexadecimal")

tokenize_binary(i, cs) == TokenizeRadix(i, cs, BinDigitChars, 2, "Binary")

\* The initial value of `first` in the exponent loop (line 526).
ExponentFirst == FALSE

\* The exponent-digit loop (lines 527-555); it always leaves the main loop.
RECURSIVE ExponentLoop(_, _, _, _)
ExponentLoop(k, number, first, start_index) ==
    LET leave(code) ==
            IF first
            THEN [kind |-> "err", idx |-> k, number |-> number, is_float |-> TRUE,
                  diag |-> Diagnostic(code, <<Primary(start_index, k)>>)]
            ELSE [kind |-> "break", idx |-> k, number |-> number, is_float |-> TRUE,
                  diag |-> NoDiag]
    IN  IF k >= N THEN leave("E0004")
        ELSE IF ~is_digit(At(k)) THEN leave("E0005")
        ELSE ExponentLoop(k + 1, Append(number, At(k)), FALSE, start_index)

\* Mutant: the exponent marker is taken wherever it stands.
ExponentAnywhere(k, number, is_float, start_index) ==
    ExponentLoop(k + 1, Append(number, At(k)), FALSE, start_index)

\* The exponent branch of the main loop (lines 484-555), at an "e"/"E" at k.
Exponent(k, number, is_float, start_index) ==
    LET err(code, labels, at) ==
            [kind |-> "err", idx |-> at, number |-> number, is_float |-> is_float,
             diag |-> Diagnostic(code, labels)]
        k1 == k + 1
        signed == k1 < N /\ At(k1) \in {"+", "-"}
        k2 == IF signed THEN k1 + 1 ELSE k1
        number1 == Append(number, At(k))
        number2 == IF signed THEN Append(number1, At(k1)) ELSE number1
    IN  IF ~is_float THEN err("E0003", <<Primary(start_index, k)>>, k)
        ELSE IF At(k - 1) = "."
        THEN err("E0002", <<Primary(start_index, k + 1), Secondary(k - 1, k - 1)>>,
                 k + 1)
        ELSE IF k1 >= N THEN err("E0004", <<Primary(start_index, k1)>>, k1)
        ELSE ExponentLoop(k2, number2, ExponentFirst, start_index)

\* Mutant: a "." never ends the numeral.
DotNeverEndsNumeral(is_float) == FALSE

\* Whether a "." at the cursor ends the numeral (line 478): it does when
\* one has been consumed already.
DotEndsNumeral(is_float) == is_float

\* 'main_number_loop (lines 468-561).
RECURSIVE MainNumberLoop(_, _, _, _)
MainNumberLoop(k, number, is_float, start_index) ==
    LET break == [kind |-> "break", idx |-> k, number |-> number,
                  is_float |-> is_float, diag |-> NoDiag]
    IN  IF k >= N THEN break
        ELSE IF is_digit(At(k))
        THEN MainNumberLoop(k + 1, Append(number, At(k)), is_float, start_index)
        ELSE IF At(k) = "."
        THEN IF DotEndsNumeral(is_float) THEN break
             ELSE MainNumberLoop(k + 1, Append(number, "."), TRUE, start_index)
        ELSE IF At(k) \in {"e", "E"} THEN Exponent(k, number, is_float, start_index)
        ELSE break

\* Lines 563-601: the buffer is taken first, then the numeral is parsed.
NumberValue(l, start_index, cs) ==
    With(get_comments(cs), LAMBDA g :
    With(StripUnderscores(l.number), LAMBDA number :
        IF l.is_float
        THEN With(parse_float(number), LAMBDA f :
                 IF f.ok
                 THEN Finish(TokFloat(start_index, l.idx, f.value), l.idx, cs)
                 ELSE Err(Diagnostic("E0006", <<Primary(start_index, l.idx)>>),
                          l.idx, g.left))
        ELSE With(from_str_radix(number, 10), LAMBDA v :
                 IF v.ok
                 THEN Finish(TokInt(start_index, l.idx, "Decimal", v.value),
                             l.idx, cs)
                 ELSE Err(Diagnostic("E0007", <<Primary(start_index, l.idx)>>),
                          l.idx, g.left))))

\* Where the cursor is left by the `0`-at-end-of-input return (lines 440-451).
ZeroAtEndCursor(i) == i

\* Lines 466-601 of tokenize_number: the main loop from cursor k with the
\* numeral text so far, then the value.
ScanNumber(k, number, start_index, cs) ==
    With(MainNumberLoop(k, number, FALSE, start_index), LAMBDA l :
        IF l.kind = "err" THEN Err(l.diag, l.idx, cs)
        ELSE NumberValue(l, start_index, cs))

\* The numeral text tokenize_number starts from (lines 432-435).
SignText(negative) == IF negative THEN <<"-">> ELSE <<>>

\* tokenize_number, entered with idx = i at the first digit.
tokenize_number(i, cs, negative) ==
    IF At(i) = "0"
    THEN IF i + 1 >= N
         THEN Finish(TokInt(i, ZeroAtEndCursor(i), "Decimal", 0),
                     ZeroAtEndCursor(i), cs)
         ELSE IF At(i + 1) = "x" THEN tokenize_hexadecimal(i + 2, cs)
         ELSE IF At(i + 1) = "b" THEN tokenize_binary(i + 2, cs)
         ELSE ScanNumber(i + 1, Append(SignText(negative), "0"), i, cs)
    ELSE ScanNumber(i, SignText(negative), i, cs)

(***************************************************************************)
(* Identifier and string literal scanners.                                 *)
(***************************************************************************)
\* Mutant: the identifier is its first character alone.
IdenEndAfterFirst(k) == k + 1

\* The end of the run of XID_Continue characters from k (lines 286-289).
RECURSIVE IdenEnd(_)
IdenEnd(k) == IF k < N /\ is_xid_continue(At(k)) THEN IdenEnd(k + 1) ELSE k

\* tokenize_iden
tokenize_iden(i, cs) ==
    With(IdenEnd(i), LAMBDA e : Finish(TokIden(i, e, Slice(i, e)), e, cs))

\* What a backslash escape inside double quotes decodes to (snailquote).
EscapeValue(c) ==
    CASE c = "a" -> "U+0007" [] c = "b" -> "U+0008" [] c = "v" -> "U+000B"
      [] c = "f" -> "\f" [] c = "n" -> "\n" [] c = "r" -> "\r" [] c = "t" -> "\t"
      [] c \in {"e", "E"} -> "U+001B"
      [] OTHER -> c

SimpleEscapes ==
    {"a", "b", "v", "f", "n", "r", "t", "e", "E", "\\", "'", "\"", "$", "U+0060", " "}

RECURSIVE HexRun(_)
HexRun(s) == IF s # <<>> /\ is_hex_digit(Head(s)) THEN 1 + HexRun(Tail(s)) ELSE 0

\* The number of hexadecimal digits after a "{" at the head of rest.
BracedHexRun(rest) ==
    IF rest # <<>> /\ Head(rest) = "{" THEN HexRun(Tail(rest)) ELSE 0

\* snailquote::unescape over the raw quoted text s from position k (1-based),
\* q the quote currently open ("" for none).  Inside single quotes nothing is
\* an escape; inside double quotes a backslash starts one.  index is the
\* 0-based position the error reports.
RECURSIVE UnescapeLoop(_, _, _, _)
UnescapeLoop(s, k, q, res) ==
    IF k > Len(s) THEN [kind |-> "ok", value |-> res, index |-> 0]
    ELSE LET c == s[k]
         IN  IF q = "'"
             THEN IF c = "'" THEN UnescapeLoop(s, k + 1, "", res)
                  ELSE UnescapeLoop(s, k + 1, q, Append(res, c))
             ELSE IF q = "\""
             THEN IF c = "\"" THEN UnescapeLoop(s, k + 1, "", res)
                  ELSE IF c # "\\" THEN UnescapeLoop(s, k + 1, q, Append(res, c))
                  ELSE IF k + 1 > Len(s)
                  THEN [kind |-> "InvalidEscape", value |-> <<>>, index |-> k - 1]
                  ELSE IF s[k + 1] \in SimpleEscapes
                  THEN UnescapeLoop(s, k + 2, q, Append(res, EscapeValue(s[k + 1])))
                  ELSE IF s[k + 1] = "u"
                  THEN With(BracedHexRun(Drop(s, k + 1)), LAMBDA h :
                           IF h > 0 /\ k + h + 3 <= Len(s) /\ s[k + h + 3] = "}"
                           THEN UnescapeLoop(s, k + h + 4, q, Append(res, "U+"))
                           ELSE [kind |-> "InvalidUnicode", value |-> <<>>,
                                 index |-> k])
                  ELSE [kind |-> "InvalidEscape", value |-> <<>>, index |-> k]
             ELSE IF c \in {"'", "\""} THEN UnescapeLoop(s, k + 1, c, res)
             ELSE UnescapeLoop(s, k + 1, q, Append(res, c))

unescape(s) == UnescapeLoop(s, 1, "", <<>>)

\* Mutant: either quote character closes the string.
ClosesStringEitherQuote(c, quote) == c \in {"\"", "'"}

\* Whether the character c at the cursor closes the string opened by quote
\* (line 621).
ClosesString(c, quote) == c = quote

\* The loop of tokenize_string (lines 612-643) from cursor k.
RECURSIVE StringLoop(_, _, _, _)
StringLoop(k, string, quote, start_index) ==
    LET never == [kind |-> "err", idx |-> k, string |-> string,
                  diag |-> Diagnostic("E0010", <<Primary(start_index, k)>>)]
    IN  IF k >= N THEN never
        ELSE IF ClosesString(At(k), quote)
        THEN [kind |-> "break", idx |-> k + 1, string |-> Append(string, quote),
              diag |-> NoDiag]
        ELSE IF At(k) = "\\"
        THEN IF k + 1 >= N
             THEN [kind |-> "err", idx |-> k + 1, string |-> string,
                   diag |-> Diagnostic("E0010", <<Primary(start_index, k + 1)>>)]
             ELSE StringLoop(k + 2, string \o <<"\\", At(k + 1)>>, quote, start_index)
        ELSE StringLoop(k + 1, Append(string, At(k)), quote, start_index)

\* tokenize_string, entered with idx = i at the opening quote.
tokenize_string(i, cs) ==
    With(StringLoop(i + 1, <<At(i)>>, At(i), i), LAMBDA l :
        IF l.kind = "err" THEN Err(l.diag, l.idx, cs)
        ELSE With(unescape(l.string), LAMBDA u :
                 IF u.kind = "ok" THEN Finish(TokStr(i, l.idx, u.value), l.idx, cs)
                 ELSE IF u.kind = "InvalidEscape"
                 THEN Err(Diagnostic("E0011", <<Primary(i + u.index, i + u.index)>>),
                          l.idx, cs)
                 ELSE Err(Diagnostic("E0012", <<Primary(i + u.index, i + u.index)>>),
                          l.idx, cs)))

(***************************************************************************)
(* Group scanner and driver.                                               *)
(***************************************************************************)
OpenChars == {"{", "[", "("}

\* The closing delimiter tokenize hands to tokenize_group (lines 764-769).
CloseOf(c) == CASE c = "{" -> "}" [] c = "[" -> "]" [] c = "(" -> ")"

CloseChars == {"}", "]", ")"}

\* Mutant: the closing delimiters count as punctuators.
PunctStartWithClosers(c) == is_punct(c) \/ c \in CloseChars

\* Whether the character at a token start is scanned as a punctuator
\* (line 739).
PunctStart(c) == is_punct(c)

\* Mutant: the bounds check before the digit test is off by one.
FusesMinusOffByOne(first_char, i) ==
    first_char = "-" /\ i + 1 < N /\ is_digit(At(i))

\* Whether the punctuator branch hands over to the number scanner
\* (lines 742-748), with the cursor i already past the punctuator.
FusesMinus(first_char, i) == first_char = "-" /\ i < N /\ is_digit(At(i))

\* Mutant: the primary label is the empty span at the cursor.
GroupNeverEndsAtCursor(at, start_index) ==
    Diagnostic("E0014", <<Primary(at, at), Secondary(start_index, start_index)>>)

\* The E0014 diagnostic of tokenize_group (lines 688-696), raised with the
\* cursor at `at` in the group opened at start_index.
GroupNeverEnds(at, start_index) ==
    Diagnostic("E0014", <<Primary(start_index, at),
                          Secondary(start_index, start_index)>>)

RECURSIVE tokenize(_, _)
RECURSIVE GroupLoop(_, _, _, _, _)

\* The loop of tokenize_group (lines 686-710) from cursor k.  A child that
\* is yielded without moving the cursor leaves the loop in the state it
\* started the iteration in, so the loop never ends: kind "hang".
GroupLoop(k, cs, tokens, close, start_index) ==
    IF k >= N THEN Err(GroupNeverEnds(k, start_index), k, cs)
    ELSE IF At(k) = close
    THEN Finish(TokGroup(start_index, k + 1, tokens), k + 1, cs)
    ELSE With(tokenize(k, cs), LAMBDA r :
             CASE r.kind = "tok" ->
                    IF r.idx = k THEN Stop("hang", r.idx, r.comments)
                    ELSE GroupLoop(r.idx, r.comments, Append(tokens, r.tok),
                                   close, start_index)
               [] r.kind = "none" ->
                    GroupLoop(r.idx, r.comments, tokens, close, start_index)
               [] OTHER -> r)

\* tokenize_group, entered with idx = i at the opening delimiter.
tokenize_group(i, cs, close) == GroupLoop(i + 1, cs, <<>>, close, i)

\* Lines 734-776 of tokenize: the dispatch on the character at the token
\* start p, with the pending comments cs.
Dispatch(p, cs) ==
    IF is_iden(At(p)) THEN tokenize_iden(p, cs)
    ELSE IF PunctStart(At(p))
    THEN IF FusesMinus(At(p), p + 1) THEN tokenize_number(p + 1, cs, TRUE)
         ELSE Finish(TokPunct(p, p + 1, At(p)), p + 1, cs)
    ELSE IF is_digit(At(p)) THEN tokenize_number(p, cs, FALSE)
    ELSE IF At(p) \in {"\"", "'"} THEN tokenize_string(p, cs)
    ELSE IF At(p) \in OpenChars THEN tokenize_group(p, cs, CloseOf(At(p)))
    ELSE Err(Diagnostic("E0013", <<Primary(p, p)>>), p, cs)

\* tokenize
tokenize(i, cs) ==
    With(skip(i, cs), LAMBDA s :
        IF s.kind = "err" THEN Err(s.diag, s.idx, s.comments)
        ELSE IF s.kind = "panic" THEN Stop("panic", s.idx, s.comments)
        ELSE IF s.idx >= N THEN Stop("none", s.idx, s.comments)
        ELSE Dispatch(s.idx, s.comments))

(***************************************************************************)
(* The state machine.                                                      *)
(***************************************************************************)
\* The sequences over S of length at most n.
SeqsUpTo(S, n) == UNION {[1..k -> S] : k \in 0..n}

\* Lexer::new; src is the set of source texts considered.
New(src) ==
    /\ chars \in src
    /\ idx = 0
    /\ comments = <<>>
    /\ out = <<>>
    /\ status = "ready"

\* One entry of the history: what a pull returned, with the cursor the pull
\* started from (at) and the start_index local of tokenize (start).
Yielded(r, at, start) ==
    [kind |-> r.kind, tok |-> r.tok, diag |-> r.diag, at |-> at, start |-> start,
     idx |-> r.idx]

\* Mutant: the cursor is put back at the start of what the call scanned.
ReturnsRewound(r, start) ==
    /\ idx' = start
    /\ comments' = r.comments
    /\ IF r.kind \in {"panic", "hang"}
       THEN status' = r.kind /\ out' = out
       ELSE status' = status /\ out' = Append(out, Yielded(r, idx, start))

\* The state a call of tokenize that ended as r leaves, start being the
\* start_index local of the call.  A pull that panics or never returns
\* yields nothing and ends the run (status).
Returns(r, start) ==
    /\ idx' = r.idx
    /\ comments' = r.comments
    /\ IF r.kind \in {"panic", "hang"}
       THEN status' = r.kind /\ out' = out
       ELSE status' = status /\ out' = Append(out, Yielded(r, idx, start))

\* Iterator::next
Pull ==
    /\ status = "ready"
    /\ Len(out) < MaxPulls
    /\ Returns(tokenize(idx, comments), skip(idx, comments).idx)
    /\ UNCHANGED chars

Next == Pull

Alphabet == {"a", "0", "1", "-", " ", "\n", "/", "*", "(", ")", "^"}

Init == New(SeqsUpTo(Alphabet, MaxLen))

Spec == Init /\ [][Next]_vars


\* Sources of numerals.
NumAlphabet == {"-", "0", "1", "7", "8", "9", "x", "b", "e", ".", " "}

InitNum == New(SeqsUpTo(NumAlphabet, MaxLen))

SpecNum == InitNum /\ [][Next]_vars

\* Sources of numerals with digit separators.
SepAlphabet == {"0", "1", "_", ".", "-", " "}

InitSep == New(SeqsUpTo(SepAlphabet, MaxLen))

SpecSep == InitSep /\ [][Next]_vars

\* Sources of string literals.
StrAlphabet == {"\"", "'", "\\", "a", "n", " "}

InitStr == New(SeqsUpTo(StrAlphabet, MaxLen))

SpecStr == InitStr /\ [][Next]_vars

\* Group-free sources of identifiers, numerals and trivia.
TriviaAlphabet == {"a", "9", " ", "\n", "/", "*"}

InitTrivia == New(SeqsUpTo(TriviaAlphabet, MaxLenTrivia))

SpecTrivia == InitTrivia /\ [][Next]_vars

\* Sources of numerals with exponents.
ExpAlphabet == {"1", ".", "e", "-", "a"}

InitExp == New(SeqsUpTo(ExpAlphabet, MaxLenExp))

SpecExp == InitExp /\ [][Next]_vars

\* Sources of groups with line comments.
GroupTriviaAlphabet == {"/", "\n", "(", ")", "a"}

InitGroupTrivia == New(SeqsUpTo(GroupTriviaAlphabet, MaxLenTrivia))

SpecGroupTrivia == InitGroupTrivia /\ [][Next]_vars

\* Sources of groups.
GroupAlphabet == {"(", ")", "{", "}", "a", " ", "\n"}

InitGroup == New(SeqsUpTo(GroupAlphabet, MaxLenGroup))

SpecGroup == InitGroup /\ [][Next]_vars

(***************************************************************************)
(* Properties.                                                             *)
(***************************************************************************)
Pulls == 1..Len(out)

\* The pulls that yielded a token.
TokenPulls == {k \in Pulls : out[k].kind = "tok"}

\* C1 (fail-fast): once a pull has yielded a Diagnostic, every later pull on
\* the same Lexer yields nothing.
FailFast ==
    \A j, k \in Pulls : (j < k /\ out[j].kind = "err") => out[k].kind = "none"

\* C2 (termination): every pull returns, and a pull that yields a token
\* leaves the cursor strictly beyond where that token began.
PullsTerminate ==
    /\ status # "hang"
    /\ \A k \in TokenPulls : out[k].idx > out[k].start

\* The end of the block comment whose body starts at k: just after the first
\* "*/" at or after k, or -1 when there is none.
RECURSIVE BlockCommentEnd(_)
BlockCommentEnd(k) ==
    IF k + 1 >= N THEN 0 - 1
    ELSE IF At(k) = "*" /\ At(k + 1) = "/" THEN k + 2
    ELSE BlockCommentEnd(k + 1)

\* chars[a..b) is made of trivia only: whitespace, line breaks, line comments
\* (to the end of the line) and block comments (to the first "*/").
RECURSIVE TriviaOnly(_, _)
TriviaOnly(a, b) ==
    IF a >= b THEN a = b
    ELSE IF is_whitespace(At(a)) \/ is_line_break(At(a)) THEN TriviaOnly(a + 1, b)
    ELSE IF At(a) = "/" /\ a + 1 < b /\ At(a + 1) = "/"
    THEN TriviaOnly(LineEnd(a + 2), b)
    ELSE IF At(a) = "/" /\ a + 1 < b /\ At(a + 1) = "*"
    THEN BlockCommentEnd(a + 2) >= 0 /\ TriviaOnly(BlockCommentEnd(a + 2), b)
    ELSE FALSE

\* The source was lexed to its end without a diagnostic.
LexedWithoutError ==
    /\ status = "ready"
    /\ out # <<>>
    /\ out[Len(out)].kind = "none"
    /\ \A k \in Pulls : out[k].kind # "err"

\* The end of the token yielded before pull k (0 when there is none).
PrevEnd(k) ==
    LET before == {j \in TokenPulls : j < k}
    IN  IF before = {} THEN 0
        ELSE LET j == CHOOSE j \in before : \A i \in before : i <= j
             IN  out[j].tok.loc[2]

\* C3 (span coverage): for a source that lexes without error, every character
\* lies inside the span of a yielded top-level token or inside trivia between
\* tokens: each gap between consecutive spans (and before the first, after
\* the last) is trivia only.
SpanCoverage ==
    LexedWithoutError =>
        /\ \A k \in TokenPulls : TriviaOnly(PrevEnd(k), out[k].tok.loc[1])
        /\ TriviaOnly(PrevEnd(Len(out)), N)


\* The spans of the comments the trivia scanner recognises in chars[a..b),
\* in source order.
RECURSIVE CommentsBetween(_, _)
CommentsBetween(a, b) ==
    IF a >= b THEN <<>>
    ELSE With(skip_token(a), LAMBDA r :
             IF r.kind = "Comment" /\ r.idx <= b
             THEN <<r.comment.loc>> \o CommentsBetween(r.idx, b)
             ELSE CommentsBetween(a + 1, b))

CommentLocs(cs) == [i \in 1..Len(cs) |-> cs[i].loc]

\* C4 (comment attachment, group-free input): each yielded token's comment
\* list is exactly the comments lying between the previous token's end (or
\* the start of input) and this token's start, in source order.
CommentsAttachedToNextToken ==
    \A k \in TokenPulls :
        CommentLocs(out[k].tok.comments)
            = CommentsBetween(PrevEnd(k), out[k].tok.loc[1])

\* The kinds of the trivia units the scanner skips from i on, up to the
\* first position that is not skippable (or where the scanner fails).
RECURSIVE TriviaUnits(_)
TriviaUnits(i) ==
    With(skip_token(i), LAMBDA r :
        IF r.kind \in {"Comment", "Whitespace", "LineBreak"}
        THEN <<r.kind>> \o TriviaUnits(r.idx)
        ELSE <<>>)

Has(seq, x) == \E i \in 1..Len(seq) : seq[i] = x

\* The spacing the precedence rule gives a token that ends at e.
SpacingRule(e) ==
    With(TriviaUnits(e), LAMBDA u :
        IF Has(u, "LineBreak") THEN "LineBreak"
        ELSE IF u # <<>> THEN "Whitespace"
        ELSE "None")

RECURSIVE DigitsEnd(_)
DigitsEnd(k) == IF k < N /\ is_digit(At(k)) THEN DigitsEnd(k + 1) ELSE k

\* The end of the run of characters of the set digits from k.
RECURSIVE RunEnd(_, _)
RunEnd(k, digits) == IF k < N /\ At(k) \in digits THEN RunEnd(k + 1, digits) ELSE k

\* The mathematical value of a digit string in a radix (no width).
RECURSIVE ExactValue(_, _)
ExactValue(s, radix) ==
    IF s = <<>> THEN 0
    ELSE ExactValue(SubSeq(s, 1, Len(s) - 1), radix) * radix + DigitVal(s[Len(s)])

\* Pull k started its token at a "-" that is directly followed by a digit.
MinusBeforeDigit(k) ==
    LET p == out[k].start
    IN  p + 1 < N /\ At(p) = "-" /\ is_digit(At(p + 1))

\* C6 (negative-literal fusion): a "-" at a token start directly followed by
\* a decimal digit never yields Punct('-'); the token the pull yields is one
\* numeric token carrying the sign (a decimal Int has the negated value of
\* the digits).  A "-" followed by anything else yields Punct('-') as the
\* pull's token.
NegativeFusion ==
    \A k \in Pulls :
        LET p == out[k].start
            t == out[k].tok
            e == DigitsEnd(p + 1)
        IN  (p < N /\ At(p) = "-" /\ out[k].kind = "tok") =>
                IF MinusBeforeDigit(k)
                THEN /\ t.type \in {"Int", "Float"}
                     /\ (t.type = "Int" /\ t.kind = "Decimal") =>
                            t.value = 0 - ExactValue(Slice(p + 1, e), 10)
                     /\ t.type = "Float" => Head(t.text) = "-"
                ELSE /\ t.type = "Punct"
                     /\ t.text = <<"-">>
                     /\ t.loc = <<p, p + 1>>

\* C6 witness: a pull at "-" followed by a non-zero digit yielded a negative
\* Int, and another pull at a "-" not followed by a digit yielded Punct('-').
NegativeFusionWitness ==
    /\ \E k \in TokenPulls :
           MinusBeforeDigit(k) /\ out[k].tok.type = "Int" /\ out[k].tok.value < 0
    /\ \E k \in TokenPulls :
           /\ At(out[k].start) = "-"
           /\ ~MinusBeforeDigit(k)
           /\ out[k].tok.type = "Punct"

\* Pull k started its token at a radix literal: the prefix "0x" or "0b" and
\* at least one digit of the radix.
RadixLiteralAt(p, letter, digits) ==
    /\ p + 2 < N
    /\ At(p) = "0"
    /\ At(p + 1) = letter
    /\ At(p + 2) \in digits

\* What C7 asks of the pull that starts at a radix literal at p.
RadixLiteralYields(k, p, digits, radix, kind) ==
    LET e == RunEnd(p + 2, digits)
        v == ExactValue(Slice(p + 2, e), radix)
    IN  v <= IntMax =>
            /\ out[k].kind = "tok"
            /\ out[k].tok.type = "Int"
            /\ out[k].tok.kind = kind
            /\ out[k].tok.value = v
            /\ out[k].tok.loc = <<p, e>>

\* C7 (radix literals): "0x" followed by hexadecimal digits, or "0b" followed
\* by binary digits, whose value fits the integer width, yields an Int of
\* kind Hexadecimal or Binary with the value of the digits in base 16 or 2
\* and a span covering the prefix and all digits.
RadixLiterals ==
    \A k \in Pulls :
        LET p == out[k].start
        IN  /\ RadixLiteralAt(p, "x", HexDigitChars) =>
                   RadixLiteralYields(k, p, HexDigitChars, 16, "Hexadecimal")
            /\ RadixLiteralAt(p, "b", BinDigitChars) =>
                   RadixLiteralYields(k, p, BinDigitChars, 2, "Binary")

\* The first digit of the numeral pull k started at (after a fused "-").
FirstDigit(k) == IF MinusBeforeDigit(k) THEN out[k].start + 1 ELSE out[k].start

\* Pull k started at a decimal integer literal: digits (after an optional
\* fused "-") that are no radix prefix and are followed by neither "." nor an
\* exponent marker.
DecimalIntegerAt(k) ==
    LET d == FirstDigit(k)
        e == DigitsEnd(d)
    IN  /\ d < N
        /\ is_digit(At(d))
        /\ ~(At(d) = "0" /\ d + 1 < N /\ At(d + 1) \in {"x", "b"})
        /\ ~(e < N /\ At(e) \in {".", "e", "E"})

\* The mathematical value of the decimal integer literal of pull k.
DecimalValue(k) ==
    LET d == FirstDigit(k)
        v == ExactValue(Slice(d, DigitsEnd(d)), 10)
    IN  IF MinusBeforeDigit(k) THEN 0 - v ELSE v

\* C8 (decimal integers never wrap): a decimal integer literal whose value
\* lies in [IntMin, IntMax] is never refused as too large and the token it
\* yields is an Int of kind Decimal with exactly that value; a literal
\* outside the range yields diagnostic E0007 and no token.
DecimalNeverWraps ==
    \A k \in Pulls :
        DecimalIntegerAt(k) =>
            IF DecimalValue(k) >= IntMin /\ DecimalValue(k) <= IntMax
            THEN /\ out[k].diag.code # "E0007"
                 /\ out[k].kind = "tok" =>
                        /\ out[k].tok.type = "Int"
                        /\ out[k].tok.kind = "Decimal"
                        /\ out[k].tok.value = DecimalValue(k)
            ELSE out[k].kind = "err" /\ out[k].diag.code = "E0007"

\* C8 witness: the least value was yielded for a fused negative literal and
\* the literal just above the greatest value was refused with E0007.
DecimalNeverWrapsWitness ==
    /\ \E k \in TokenPulls :
           /\ DecimalIntegerAt(k)
           /\ MinusBeforeDigit(k)
           /\ out[k].tok.value = IntMin
    /\ \E k \in Pulls :
           /\ DecimalIntegerAt(k)
           /\ DecimalValue(k) = IntMax + 1
           /\ out[k].diag.code = "E0007"


\* Pull k opened a group and ended with E0013 at a closing delimiter whose
\* kind differs from that of every opener the pull had passed.
MismatchedCloserRefused(k) ==
    /\ out[k].kind = "err"
    /\ out[k].diag.code = "E0013"
    /\ At(out[k].start) \in OpenChars
    /\ LET p == out[k].diag.labels[1].loc[1]
       IN  /\ p < N
           /\ At(p) \in CloseChars
           /\ \A q \in out[k].start..(p - 1) :
                  At(q) \in OpenChars => CloseOf(At(q)) # At(p)

\* C9 as stated (mismatched closers are ordinary tokens): a closing delimiter
\* of a different kind inside a group raises no error.
MismatchedCloserIsPunct == \A k \in Pulls : ~MismatchedCloserRefused(k)

\* The tokens of a token tree, the tree's root included.
RECURSIVE Subtree(_)
Subtree(t) ==
    {t} \cup UNION {Subtree(t.tokens[i]) : i \in 1..Len(t.tokens)}

\* C9 as amended: in a group opened at q, when the scan of the next child
\* starts at a closing delimiter p of another kind, the group is not ended
\* and no Punct is made: the result is diagnostic E0013 located at p, with
\* the cursor left at p; and no yielded token is a Punct that carries a
\* closing delimiter.
MismatchedCloserIsInvalid ==
    /\ \A q, p \in 0..(N - 1) :
           (/\ q < p
            /\ At(q) \in OpenChars
            /\ At(p) \in CloseChars
            /\ At(p) # CloseOf(At(q))) =>
               With(GroupLoop(p, <<>>, <<>>, CloseOf(At(q)), q), LAMBDA r :
                   /\ r.kind = "err"
                   /\ r.diag = Diagnostic("E0013", <<Primary(p, p)>>)
                   /\ r.idx = p)
    /\ \A k \in TokenPulls :
           \A t \in Subtree(out[k].tok) :
               t.type = "Punct" => t.text[1] \notin CloseChars

\* C9 witness: a pull that opened a group yielded E0013 at a closing
\* delimiter of another kind, after a child had been scanned.
MismatchedCloserWitness ==
    \E k \in Pulls :
        /\ MismatchedCloserRefused(k)
        /\ At(out[k].start + 1) \in XidStartChars

\* The end of a well-closed group body from k: just after the closer `close`,
\* when everything before it is identifiers, whitespace, line breaks and
\* well-closed nested groups; -1 otherwise.
RECURSIVE GroupBodyEnd(_, _)
GroupBodyEnd(k, close) ==
    IF k >= N THEN 0 - 1
    ELSE IF At(k) = close THEN k + 1
    ELSE IF At(k) \in OpenChars
    THEN With(GroupBodyEnd(k + 1, CloseOf(At(k))), LAMBDA e :
             IF e < 0 THEN 0 - 1 ELSE GroupBodyEnd(e, close))
    ELSE IF At(k) \in XidStartChars \cup WhitespaceChars \cup LineBreakChars
    THEN GroupBodyEnd(k + 1, close)
    ELSE 0 - 1

\* The children of every group of the tree lie strictly inside the group's
\* span, in source order.
RECURSIVE ChildrenInside(_)
ChildrenInside(t) ==
    \A i \in 1..Len(t.tokens) :
        /\ t.tokens[i].loc[1] > t.loc[1]
        /\ t.tokens[i].loc[2] < t.loc[2]
        /\ i > 1 => t.tokens[i - 1].loc[2] <= t.tokens[i].loc[1]
        /\ ChildrenInside(t.tokens[i])

\* C10 (group shape): a pull that starts at the opener of a well-closed group
\* yields one Group token whose span runs from the opener to just after the
\* matching closer and whose children lie strictly inside it, in order.
GroupShape ==
    \A k \in Pulls :
        LET q == out[k].start
            e == GroupBodyEnd(q + 1, CloseOf(At(q)))
        IN  (q < N /\ At(q) \in OpenChars /\ e >= 0) =>
                /\ out[k].kind = "tok"
                /\ out[k].tok.type = "Group"
                /\ out[k].tok.loc = <<q, e>>
                /\ ChildrenInside(out[k].tok)


\* A comment opens at p: "//" or "/*".
OpensComment(p) == p + 1 < N /\ At(p) = "/" /\ At(p + 1) \in {"/", "*"}

\* The cursor of pull k stood at a punctuator that neither opens a comment
\* nor is a "-" directly before a digit.
PunctuatorAt(k) ==
    LET p == out[k].at
    IN  /\ p < N
        /\ At(p) \in PunctChars
        /\ ~OpensComment(p)
        /\ ~(At(p) = "-" /\ p + 1 < N /\ At(p + 1) \in DigitChars)

\* C11 (every punctuator yields a Punct): a pull whose cursor stands at a
\* punctuator ("/" included) that opens no comment and is no "-" before a
\* digit yields a Punct carrying that character with a one-character span,
\* and nothing but trivia is consumed after it, so that the following
\* character starts the next token.
PunctuatorYieldsPunct ==
    \A k \in Pulls :
        PunctuatorAt(k) =>
            /\ out[k].kind = "tok"
            /\ out[k].tok.type = "Punct"
            /\ out[k].tok.text = <<At(out[k].at)>>
            /\ out[k].tok.loc = <<out[k].at, out[k].at + 1>>
            /\ TriviaOnly(out[k].at + 1, out[k].idx)


\* The end of the separated digit run from k: digits, and underscores that
\* stand between two digits.
RECURSIVE SeparatedEnd(_)
SeparatedEnd(k) ==
    IF k < N /\ is_digit(At(k)) THEN SeparatedEnd(k + 1)
    ELSE IF k + 1 < N /\ At(k) = "_" /\ is_digit(At(k + 1)) THEN SeparatedEnd(k + 2)
    ELSE k

\* The digits of s, its underscores left out.
Digits(s) == SelectSeq(s, LAMBDA c : c \in DigitChars)

\* Pull k started at an unsigned decimal integer numeral that has an
\* underscore between digits and whose value fits the integer width.
SeparatedIntegerAt(k) ==
    LET d == out[k].start
        e == SeparatedEnd(d)
    IN  /\ d < N
        /\ is_digit(At(d))
        /\ \E u \in d..(e - 1) : At(u) = "_"
        /\ ~(e < N /\ At(e) \in {".", "e", "E", "_"})
        /\ ExactValue(Digits(Slice(d, e)), 10) <= IntMax

\* C12 (underscore digit separators): a decimal integer numeral with
\* underscores between its digits yields one Int whose value is that of the
\* digits alone and whose span covers the whole numeral, underscores
\* included.
UnderscoreSeparators ==
    \A k \in Pulls :
        SeparatedIntegerAt(k) =>
            /\ out[k].kind = "tok"
            /\ out[k].tok.type = "Int"
            /\ out[k].tok.value
                   = ExactValue(Digits(Slice(out[k].start,
                                             SeparatedEnd(out[k].start))), 10)
            /\ out[k].tok.loc = <<out[k].start, SeparatedEnd(out[k].start)>>


\* Pull k started at a radix literal with prefix letter and digit set digits
\* whose digits, read in the radix, do not fit the integer width.
RadixOverflowAt(k, letter, digits, radix) ==
    /\ RadixLiteralAt(out[k].start, letter, digits)
    /\ ExactValue(Slice(out[k].start + 2, RunEnd(out[k].start + 2, digits)), radix)
           > IntMax

\* C13 (radix overflow): a "0x" or "0b" literal with at least one valid
\* digit whose digits do not fit the signed integer width yields diagnostic
\* E0009: no token and no other diagnostic code.
RadixOverflow ==
    \A k \in Pulls :
        (\/ RadixOverflowAt(k, "x", HexDigitChars, 16)
         \/ RadixOverflowAt(k, "b", BinDigitChars, 2)) =>
            out[k].kind = "err" /\ out[k].diag.code = "E0009"


\* Every span in the tree of t is a well-formed range inside the source.
SpansWellFormed(t) ==
    \A u \in Subtree(t) : 0 <= u.loc[1] /\ u.loc[1] <= u.loc[2] /\ u.loc[2] <= N

\* C14 (span ordering): every yielded span is a well-formed half-open range
\* within the source, and each yielded token's span starts at or after the
\* end of the token yielded before it, so that no two yielded spans
\* overlap.
SpanOrdering ==
    /\ \A k \in TokenPulls : SpansWellFormed(out[k].tok)
    /\ \A j, k \in TokenPulls :
           j < k => out[j].tok.loc[2] <= out[k].tok.loc[1]

\* C14 witness: three tokens with non-empty spans were yielded, the second
\* directly after the first and the third after a gap.
SpanOrderingWitness ==
    /\ Len(out) >= 3
    /\ \A k \in 1..3 : out[k].kind = "tok" /\ out[k].tok.loc[1] < out[k].tok.loc[2]
    /\ out[1].tok.loc[2] = out[2].tok.loc[1]
    /\ out[2].tok.loc[2] < out[3].tok.loc[1]


\* The last pull yielded nothing: end of input was reached.
Done == out # <<>> /\ out[Len(out)].kind = "none"

\* C15 (Done is absorbing): once a pull has yielded nothing at end of input,
\* every later pull yields nothing too and leaves the cursor and the
\* pending-comment buffer as they were.
DoneIsAbsorbing ==
    [][Done => /\ Len(out') = Len(out) + 1
               /\ out'[Len(out')].kind = "none"
               /\ idx' = idx
               /\ comments' = comments]_vars

\* C15 witness: after a token, two pulls in a row yielded nothing, with a
\* comment still pending in the buffer.
DoneIsAbsorbingWitness ==
    /\ Len(out) >= 3
    /\ out[Len(out) - 2].kind = "tok"
    /\ out[Len(out) - 1].kind = "none"
    /\ out[Len(out)].kind = "none"
    /\ comments # <<>>


\* The opener of the innermost group still open at end of input, reading
\* the source from k with the openers in `open` (outermost first) not yet
\* closed; -1 when the outermost of them is closed, or when a character
\* other than an identifier character, whitespace, a line break or a
\* matching delimiter is met first.
RECURSIVE InnermostOpen(_, _)
InnermostOpen(k, open) ==
    IF open = <<>> THEN 0 - 1
    ELSE IF k >= N THEN open[Len(open)]
    ELSE IF At(k) = CloseOf(At(open[Len(open)]))
    THEN InnermostOpen(k + 1, SubSeq(open, 1, Len(open) - 1))
    ELSE IF At(k) \in OpenChars THEN InnermostOpen(k + 1, Append(open, k))
    ELSE IF At(k) \in XidStartChars \cup WhitespaceChars \cup LineBreakChars
    THEN InnermostOpen(k + 1, open)
    ELSE 0 - 1

\* Pull k started at the opener of a group that end of input leaves open.
UnterminatedGroupAt(k) ==
    /\ out[k].start < N
    /\ At(out[k].start) \in OpenChars
    /\ InnermostOpen(out[k].start + 1, <<out[k].start>>) >= 0

\* The opener of the innermost group pull k left open.
LeftOpen(k) == InnermostOpen(out[k].start + 1, <<out[k].start>>)

ChildFailedAtCloser(k) ==
    /\ out[k].diag.code = "E0013"
    /\ out[k].diag.labels[1].loc[1] < N
    /\ At(out[k].diag.labels[1].loc[1]) \in CloseChars

UnterminatedCommentAt(p) ==
    p + 1 < N /\ At(p) = "/" /\ At(p + 1) = "*" /\ BlockCommentEnd(p + 2) < 0

\* The place of the unterminated block comment the trivia scanner meets
\* when it skips from i (in a trailing-spacing scan, which ends at the first
\* line break, when in_spacing); -1 when it meets none.
RECURSIVE CommentMet(_, _)
CommentMet(i, in_spacing) ==
    IF UnterminatedCommentAt(i) THEN i
    ELSE With(skip_token(i), LAMBDA r :
             IF \/ r.kind \in {"Comment", "Whitespace"}
                \/ r.kind = "LineBreak" /\ ~in_spacing
             THEN CommentMet(r.idx, in_spacing)
             ELSE 0 - 1)

\* The diagnostic C17 describes for the comment opened at p.
NeverEndingComment(p) == Diagnostic("E0001", <<Primary(N, N), Secondary(p, p + 2)>>)

\* The end of the identifier or punctuator pull k started at; -1 when the
\* pull started at something else.
SimpleTokenEnd(k) ==
    IF out[k].start >= N THEN 0 - 1
    ELSE IF is_iden(At(out[k].start)) THEN IdenEnd(out[k].start)
    ELSE IF is_punct(At(out[k].start)) /\ ~MinusBeforeDigit(k) THEN out[k].start + 1
    ELSE 0 - 1

\* C17 (unterminated block comment): when the scanner meets a "/*" that no
\* "*/" follows, either while skipping before a token or in the trailing
\* spacing of an identifier or punctuator, the pull yields E0001 with the
\* primary label the empty span at end of input and the secondary label
\* the two characters of that "/*".
UnterminatedBlockComment ==
    \A k \in Pulls :
        /\ CommentMet(out[k].at, FALSE) >= 0 =>
               /\ out[k].kind = "err"
               /\ out[k].diag = NeverEndingComment(CommentMet(out[k].at, FALSE))
        /\ (SimpleTokenEnd(k) >= 0 /\ CommentMet(SimpleTokenEnd(k), TRUE) >= 0) =>
               /\ out[k].kind = "err"
               /\ out[k].diag = NeverEndingComment(CommentMet(SimpleTokenEnd(k), TRUE))

\* C17 witness: after an earlier pull, a pull skipped trivia, scanned an
\* identifier and met the unterminated comment beyond the whitespace that
\* follows the identifier; it yielded E0001.
UnterminatedBlockCommentWitness ==
    \E k \in Pulls :
        /\ k > 1
        /\ out[k].at < out[k].start
        /\ out[k].start < N
        /\ is_iden(At(out[k].start))
        /\ CommentMet(IdenEnd(out[k].start), TRUE) > IdenEnd(out[k].start)
        /\ out[k].diag.code = "E0001"


\* The place of the quote that closes a string opened by `quote`, reading
\* the source from k: the first `quote` that is not the character right
\* after a backslash that is itself unescaped; -1 when end of input comes
\* first, be it directly after a backslash.
RECURSIVE StringClose(_, _)
StringClose(k, quote) ==
    IF k >= N THEN 0 - 1
    ELSE IF At(k) = "\\"
    THEN IF k + 1 >= N THEN 0 - 1 ELSE StringClose(k + 2, quote)
    ELSE IF At(k) = quote THEN k
    ELSE StringClose(k + 1, quote)

\* Pull k started at a quote character.
StringAt(k) == out[k].start < N /\ At(out[k].start) \in {"\"", "'"}

\* The place of the quote closing the string pull k started at.
ClosingQuote(k) == StringClose(out[k].start + 1, At(out[k].start))

\* C18 (string delimiting): a string opened by a quote character ends at
\* the first later occurrence of the same quote that no unconsumed backslash
\* directly precedes: the token's span runs from the opening quote to just
\* after that quote, and without backslashes the text between the quotes,
\* the other quote character included, is the token's value; a string with
\* backslashes yields a Str of that span or an escape diagnostic, never
\* E0010.  When end of input comes before the closing quote, or directly
\* after a backslash, the pull yields E0010.
StringDelimiting ==
    \A k \in Pulls :
        StringAt(k) =>
            IF ClosingQuote(k) < 0
            THEN out[k].kind = "err" /\ out[k].diag.code = "E0010"
            ELSE /\ out[k].kind = "tok" =>
                        /\ out[k].tok.type = "Str"
                        /\ out[k].tok.loc = <<out[k].start, ClosingQuote(k) + 1>>
                 /\ out[k].kind = "err" => out[k].diag.code \in {"E0011", "E0012"}
                 /\ out[k].idx >= ClosingQuote(k) + 1
                 /\ (\A u \in (out[k].start + 1)..(ClosingQuote(k) - 1) :
                         At(u) # "\\") =>
                        /\ out[k].kind = "tok"
                        /\ out[k].tok.text
                               = Slice(out[k].start + 1, ClosingQuote(k))

\* C18 witness: a double-quoted string holding a backslash-escaped double
\* quote was yielded as one Str that ends at the later, unescaped quote.
StringDelimitingWitness ==
    \E k \in TokenPulls :
        /\ StringAt(k)
        /\ At(out[k].start) = "\""
        /\ At(out[k].start + 1) = "\\"
        /\ At(out[k].start + 2) = "\""
        /\ out[k].tok.type = "Str"
        /\ out[k].tok.loc = <<out[k].start, out[k].start + 4>>


\* Pull k started at a radix prefix ("0" and letter, after a fused "-" if
\* any) that a digit of the set digits does not follow: end of input or
\* another character comes next.
RadixPrefixAlone(k, letter, digits) ==
    LET d == FirstDigit(k)
    IN  /\ d + 1 < N
        /\ At(d) = "0"
        /\ At(d + 1) = letter
        /\ (d + 2 >= N \/ At(d + 2) \notin digits)

\* C19 (missing radix digits): a "0x" or "0b" prefix followed by end of
\* input or by a character that is no digit of the radix yields diagnostic
\* E0008.
MissingRadixDigits ==
    \A k \in Pulls :
        (\/ RadixPrefixAlone(k, "x", HexDigitChars)
         \/ RadixPrefixAlone(k, "b", BinDigitChars)) =>
            out[k].kind = "err" /\ out[k].diag.code = "E0008"

\* C19 witness: after an earlier pull, E0008 was yielded for a prefix
\* followed by a character that is no digit of the radix.
MissingRadixDigitsWitness ==
    \E k \in Pulls :
        /\ k > 1
        /\ FirstDigit(k) + 2 < N
        /\ \/ RadixPrefixAlone(k, "x", HexDigitChars)
           \/ RadixPrefixAlone(k, "b", BinDigitChars)
        /\ out[k].diag.code = "E0008"


\* The kind C20 gives the comment that starts at a: Block for "/*", Doc for
\* "///", Line for "//" with no third slash.
KindOfCommentAt(a) ==
    IF At(a + 1) = "*" THEN "Block"
    ELSE IF a + 2 < N /\ At(a + 2) = "/" THEN "Doc"
    ELSE "Line"

\* C20 (comment kind mapping): every comment handed out with a token has
\* kind Line when it starts with exactly "//", Doc when it starts with
\* "///", and Block when it is a "/* ... */" comment.
CommentKindMapping ==
    \A k \in TokenPulls :
        \A i \in 1..Len(out[k].tok.comments) :
            out[k].tok.comments[i].kind
                = KindOfCommentAt(out[k].tok.comments[i].loc[1])


\* C21 (group comments): the comment list of a yielded Group holds exactly
\* the comments that stand between the previous token's end (or the start of
\* input) and the group's opening delimiter, in order: none of them goes to
\* a child instead, and no comment from inside the group is on the Group.
GroupComments ==
    \A k \in TokenPulls :
        out[k].tok.type = "Group" =>
            /\ CommentLocs(out[k].tok.comments)
                   = CommentsBetween(PrevEnd(k), out[k].tok.loc[1])
            /\ \A t \in Subtree(out[k].tok) \ {out[k].tok} :
                   \A i \in 1..Len(t.comments) :
                       t.comments[i].loc[1] > out[k].tok.loc[1]


\* C22 (trivia-only input): for a source made of whitespace, line breaks
\* and terminated comments only (a line comment may end at end of input),
\* the first pull returns and yields nothing: no token and no diagnostic.
TriviaOnlyYieldsNothing ==
    TriviaOnly(0, N) =>
        /\ status = "ready"
        /\ out # <<>> => out[1].kind = "none"


\* The end of the maximal run of identifier-continue characters from p.
ContinueRunEnd(p) ==
    CHOOSE e \in p..N :
        /\ \A u \in p..(e - 1) : At(u) \in XidContinueChars
        /\ e = N \/ At(e) \notin XidContinueChars

\* Pull k started at an identifier-start character.
IdentifierAt(k) == out[k].start < N /\ is_iden(At(out[k].start))

\* C23 (identifiers): a pull that starts at an identifier-start character
\* yields an Iden whose text is the maximal run of identifier-continue
\* characters from there and whose span is exactly that run; it yields no
\* other kind of token, and no diagnostic other than E0001 from the trailing
\* pass, which it yields only when that pass fails.
Identifiers ==
    \A k \in Pulls :
        IdentifierAt(k) =>
            /\ out[k].kind \in {"tok", "err"}
            /\ out[k].kind = "tok" =>
                   /\ out[k].tok.type = "Iden"
                   /\ out[k].tok.text
                          = Slice(out[k].start, ContinueRunEnd(out[k].start))
                   /\ out[k].tok.loc
                          = <<out[k].start, ContinueRunEnd(out[k].start)>>
            /\ out[k].kind = "err" =>
                   /\ out[k].diag.code = "E0001"
                   /\ spacing(ContinueRunEnd(out[k].start), <<>>).kind = "err"

\* C23 witness: after leading trivia, an identifier of a letter and a digit
\* followed by whitespace was yielded as one Iden.
IdentifiersWitness ==
    \E k \in TokenPulls :
        /\ IdentifierAt(k)
        /\ out[k].at < out[k].start
        /\ ContinueRunEnd(out[k].start) = out[k].start + 2
        /\ At(out[k].start + 1) \in DigitChars
        /\ out[k].tok.type = "Iden"
        /\ out[k].tok.spacing = "Whitespace"


\* Pull k started at an unsigned decimal numeral with a "." after its
\* integer digits and no exponent marker after its fraction digits.
FloatLiteralAt(k) ==
    LET d == out[k].start
    IN  /\ d < N
        /\ is_digit(At(d))
        /\ ~(At(d) = "0" /\ d + 1 < N /\ At(d + 1) \in {"x", "b"})
        /\ DigitsEnd(d) < N
        /\ At(DigitsEnd(d)) = "."
        /\ ~(DigitsEnd(DigitsEnd(d) + 1) < N
             /\ At(DigitsEnd(DigitsEnd(d) + 1)) \in {"e", "E", "_"})

\* The end of the float literal pull k started at: after the fraction
\* digits.
FloatEnd(k) == DigitsEnd(DigitsEnd(out[k].start) + 1)

\* C24 (float literals): a numeral with one "." yields a single Float whose
\* span covers the integer digits, the "." and the fraction digits (or
\* E0001 when its trailing pass fails); a second "." is not consumed: the
\* cursor is left at it and the next pull starts there and yields it as a
\* Punct.
FloatLiterals ==
    \A k \in Pulls :
        FloatLiteralAt(k) =>
            /\ out[k].kind = "tok" \/ out[k].diag.code = "E0001"
            /\ out[k].kind = "tok" =>
                   /\ out[k].tok.type = "Float"
                   /\ out[k].tok.loc = <<out[k].start, FloatEnd(k)>>
                   /\ out[k].tok.text = Slice(out[k].start, FloatEnd(k))
            /\ (FloatEnd(k) < N /\ At(FloatEnd(k)) = ".") =>
                   /\ out[k].kind = "tok"
                   /\ out[k].idx = FloatEnd(k)
                   /\ (k + 1) \in Pulls =>
                          /\ out[k + 1].start = FloatEnd(k)
                          /\ out[k + 1].kind = "tok" =>
                                 /\ out[k + 1].tok.type = "Punct"
                                 /\ out[k + 1].tok.text = <<".">>

\* C24 witness: a numeral with fraction digits and a second "." was yielded
\* as a Float that ends before the second ".", and the next pull yielded
\* that "." as a Punct.
FloatLiteralsWitness ==
    \E k \in TokenPulls :
        /\ FloatLiteralAt(k)
        /\ FloatEnd(k) > DigitsEnd(out[k].start) + 1
        /\ FloatEnd(k) < N
        /\ At(FloatEnd(k)) = "."
        /\ out[k].tok.type = "Float"
        /\ (k + 1) \in TokenPulls
        /\ out[k + 1].tok.type = "Punct"
        /\ out[k + 1].tok.loc = <<FloatEnd(k), FloatEnd(k) + 1>>


\* Pull k started at the opener of a well-closed group whose closing
\* delimiter has whitespace or a line break directly before it.
ClosedAfterTriviaAt(k) ==
    LET q == out[k].start
        e == GroupBodyEnd(q + 1, CloseOf(At(q)))
    IN  /\ q < N
        /\ At(q) \in OpenChars
        /\ e >= 0
        /\ At(e - 2) \in WhitespaceChars \cup LineBreakChars

\* C25 (closing is independent of preceding trivia): a group whose matching
\* closer has trivia directly before it is closed by that closer all the
\* same: the pull yields a Group spanning from the opener to just after the
\* closer, with no children when the body is trivia only.
ClosesAfterTrivia ==
    \A k \in Pulls :
        ClosedAfterTriviaAt(k) =>
            LET q == out[k].start
                e == GroupBodyEnd(q + 1, CloseOf(At(q)))
            IN  /\ out[k].kind = "tok"
                /\ out[k].tok.type = "Group"
                /\ out[k].tok.loc = <<q, e>>
                /\ (\A u \in (q + 1)..(e - 2) :
                        At(u) \in WhitespaceChars \cup LineBreakChars) =>
                       out[k].tok.tokens = <<>>


\* C26 (block comment termination): a block comment ends at the first "*/"
\* after its "/*": a pull yields E0001 only for a "/*" that no "*/"
\* follows, and every block comment handed out with a token ends just
\* after the first "*/" that follows its opening.
BlockCommentTermination ==
    \A k \in Pulls :
        /\ out[k].diag.code = "E0001" =>
               BlockCommentEnd(out[k].diag.labels[2].loc[1] + 2) < 0
        /\ out[k].kind = "tok" =>
               \A i \in 1..Len(out[k].tok.comments) :
                   out[k].tok.comments[i].kind = "Block" =>
                       out[k].tok.comments[i].loc[2]
                           = BlockCommentEnd(out[k].tok.comments[i].loc[1] + 2)


\* The exponent marker of the unsigned numeral pull k started at, when the
\* numeral is digits, a ".", at least one fraction digit and then "e" or
\* "E"; -1 otherwise.
ExponentMarker(k) ==
    LET d == out[k].start
        f == DigitsEnd(DigitsEnd(d) + 1)
    IN  IF /\ d < N
           /\ is_digit(At(d))
           /\ ~(At(d) = "0" /\ d + 1 < N /\ At(d + 1) \in {"x", "b"})
           /\ DigitsEnd(d) < N
           /\ At(DigitsEnd(d)) = "."
           /\ f > DigitsEnd(d) + 1
           /\ f < N
           /\ At(f) \in {"e", "E"}
        THEN f
        ELSE 0 - 1

\* Where the exponent digits are due after the marker at m: after the
\* optional sign.
ExponentDigitsAt(m) ==
    IF m + 1 < N /\ At(m + 1) \in {"+", "-"} THEN m + 2 ELSE m + 1

\* C27 (exponent digits required): in a float literal, when end of input
\* comes after the exponent marker and its optional sign the pull yields
\* E0004, and when the first character there is not a digit the pull
\* yields E0005.
ExponentDigitsRequired ==
    \A k \in Pulls :
        ExponentMarker(k) >= 0 =>
            /\ ExponentDigitsAt(ExponentMarker(k)) >= N =>
                   out[k].kind = "err" /\ out[k].diag.code = "E0004"
            /\ (/\ ExponentDigitsAt(ExponentMarker(k)) < N
                /\ ~is_digit(At(ExponentDigitsAt(ExponentMarker(k))))) =>
                   out[k].kind = "err" /\ out[k].diag.code = "E0005"


\* Where the text of the line comment that starts at a begins: after "//",
\* or after "///".
LineCommentText(a) == IF a + 2 < N /\ At(a + 2) = "/" THEN a + 3 ELSE a + 2

\* C28 (line comment text and span): every line or doc comment handed out
\* with a token has as value the trimmed text of all the characters between
\* its marker and the line break that ends it, and as span the range from
\* its first "/" to just before that line break.
LineCommentTextAndSpan ==
    \A k \in TokenPulls :
        \A i \in 1..Len(out[k].tok.comments) :
            LET c == out[k].tok.comments[i]
            IN  c.kind # "Block" =>
                    /\ c.value = Trim(Slice(LineCommentText(c.loc[1]),
                                             LineEnd(LineCommentText(c.loc[1]))))
                    /\ c.loc = <<c.loc[1], LineEnd(LineCommentText(c.loc[1]))>>


\* C29 (no out-of-bounds read): no pull reads the character sequence at an
\* index that is not below its length, so no pull faults.
NoOutOfBoundsRead == status # "panic"


\* Pull k started at a decimal numeral (after a fused "-" if any) that is
\* no radix prefix.
DecimalNumeralAt(k) ==
    /\ FirstDigit(k) < N
    /\ is_digit(At(FirstDigit(k)))
    /\ ~(/\ At(FirstDigit(k)) = "0"
         /\ FirstDigit(k) + 1 < N
         /\ At(FirstDigit(k) + 1) \in {"x", "b"})

\* The end of the integer digits of the numeral pull k started at.
IntegerDigitsEnd(k) == DigitsEnd(FirstDigit(k))

\* The numeral of pull k has an exponent marker right after its integer
\* digits, before any ".".
MarkerBeforeDot(k) ==
    /\ DecimalNumeralAt(k)
    /\ IntegerDigitsEnd(k) < N
    /\ At(IntegerDigitsEnd(k)) \in {"e", "E"}

\* The numeral of pull k has an exponent marker directly after its ".".
MarkerAfterDot(k) ==
    /\ DecimalNumeralAt(k)
    /\ IntegerDigitsEnd(k) + 1 < N
    /\ At(IntegerDigitsEnd(k)) = "."
    /\ At(IntegerDigitsEnd(k) + 1) \in {"e", "E"}

\* C30 (exponent only on floats): an exponent marker met before any "."
\* yields E0003, one met directly after the "." yields E0002, and one met
\* after the "." and at least one fraction digit raises neither.
ExponentOnlyOnFloats ==
    \A k \in Pulls :
        /\ MarkerBeforeDot(k) => out[k].kind = "err" /\ out[k].diag.code = "E0003"
        /\ MarkerAfterDot(k) => out[k].kind = "err" /\ out[k].diag.code = "E0002"
        /\ ExponentMarker(k) >= 0 => out[k].diag.code \notin {"E0002", "E0003"}

\* C30 witness: a numeral with a fused "-" and an exponent marker directly
\* after its "." was refused with E0002, the secondary label at the ".".
ExponentOnlyOnFloatsWitness ==
    \E k \in Pulls :
        /\ MinusBeforeDigit(k)
        /\ MarkerAfterDot(k)
        /\ out[k].diag.code = "E0002"
        /\ out[k].diag.labels[2]
               = Secondary(IntegerDigitsEnd(k), IntegerDigitsEnd(k))


\* The first token start reached from p through opening delimiters that
\* directly follow one another: p itself when no delimiter stands at p.
RECURSIVE InnermostFirst(_)
InnermostFirst(p) ==
    IF p < N /\ At(p) \in OpenChars THEN InnermostFirst(p + 1) ELSE p

\* The end of the identifier or punctuator that starts at p; -1 when p is
\* at something else (a "/" with a character after it is left to the trivia
\* scanner, a "-" before a digit to the number scanner).
SimpleEnd(p) ==
    IF p >= N THEN 0 - 1
    ELSE IF is_iden(At(p)) THEN ContinueRunEnd(p)
    ELSE IF /\ is_punct(At(p))
            /\ ~(At(p) = "/" /\ p + 1 < N)
            /\ ~(At(p) = "-" /\ p + 1 < N /\ is_digit(At(p + 1)))
    THEN p + 1
    ELSE 0 - 1

\* The token pull k scans first: at its start, or as the first child of the
\* group (of the innermost of the groups) opened there.
FirstScanned(k) == InnermostFirst(out[k].start)

\* The trailing-spacing pass of the token pull k scans first meets an
\* unterminated block comment.
TrailingPassFails(k) ==
    /\ SimpleEnd(FirstScanned(k)) >= 0
    /\ CommentMet(SimpleEnd(FirstScanned(k)), TRUE) >= 0

\* C31 (token lost with its trailing trivia): when an identifier or
\* punctuator has been scanned, at top level or as the first child of a
\* group, and the trailing-spacing pass after it meets an unterminated block
\* comment, the pull yields E0001 and neither that pull nor any later one
\* yields a token: the scanned token and the groups around it are lost.
TokenLostWithTrailingTrivia ==
    \A k \in Pulls :
        TrailingPassFails(k) =>
            /\ out[k].kind = "err"
            /\ out[k].diag.code = "E0001"
            /\ \A j \in Pulls : j >= k => out[j].kind # "tok"

\* C31 witness: an identifier scanned as the first child of a group was
\* followed by an unterminated block comment; the pull yielded E0001 and
\* the pull after it yielded nothing.
TokenLostWithTrailingTriviaWitness ==
    \E k \in Pulls :
        /\ FirstScanned(k) > out[k].start
        /\ FirstScanned(k) < N
        /\ is_iden(At(FirstScanned(k)))
        /\ TrailingPassFails(k)
        /\ out[k].diag.code = "E0001"
        /\ k < Len(out)
        /\ out[k + 1].kind = "none"


\* The end of the decimal numeral whose first digit is at d: after its
\* integer digits, and after the "." and the fraction digits when a "."
\* follows the integer digits.
NumeralEnd(d) ==
    IF DigitsEnd(d) < N /\ At(DigitsEnd(d)) = "."
    THEN DigitsEnd(DigitsEnd(d) + 1)
    ELSE DigitsEnd(d)

\* C32 (span of a fused negative literal): a numeric token yielded by a pull
\* that started at a "-" directly followed by a digit has a span that starts
\* at the "-" and ends just after the last character of the numeral (its
\* digits, with the "." and fraction digits of a Float).
FusedLiteralSpan ==
    \A k \in TokenPulls :
        (MinusBeforeDigit(k) /\ out[k].tok.type \in {"Int", "Float"}) =>
            /\ out[k].tok.loc[1] = out[k].start
            /\ out[k].tok.loc[2] >= NumeralEnd(out[k].start + 1)
            /\ ~(NumeralEnd(out[k].start + 1) < N
                 /\ At(NumeralEnd(out[k].start + 1)) \in {"e", "E", "_"}) =>
                   out[k].tok.loc[2] = NumeralEnd(out[k].start + 1)


\* The cursor is within the source, and so were the cursor each pull
\* started from, the start of what it scanned and the cursor it left, in
\* that order.
CursorInBounds ==
    /\ 0 <= idx
    /\ idx <= N
    /\ \A k \in Pulls :
           /\ 0 <= out[k].at
           /\ out[k].at <= out[k].start
           /\ out[k].start <= out[k].idx
           /\ out[k].idx <= N

\* C33 (cursor invariant): in every reachable state the cursor satisfies
\* 0 <= cursor <= source length, and no pull, whatever it yields, leaves
\* the cursor before the place it started from.
CursorInvariant == [](CursorInBounds) /\ [][idx <= idx']_vars

\* C33 witness: a pull moved the cursor, the next pull moved it further to
\* the end of the source and yielded a diagnostic, and a pull after that
\* left it there.
CursorInvariantWitness ==
    \E k \in Pulls :
        /\ k > 1
        /\ k < Len(out)
        /\ 0 < out[k].at
        /\ out[k].at < out[k].idx
        /\ out[k].kind = "err"
        /\ out[k].idx = N
        /\ idx = N

====
